---- MODULE Spec2Model ----
(***************************************************************************)
(* The cephadm rolling-upgrade controller (pybind/mgr/cephadm/upgrade.py)  *)
(* as a state machine.  The controller state is the in-memory UpgradeState,*)
(* the key-value store entry 'upgrade_state', the health sink, the progress*)
(* sink, the cluster configuration and the daemon inventory.  A tick       *)
(* (continue_upgrade -> _do_upgrade) is a sequence of steps driven by pc;  *)
(* the operator's control operations run between ticks and, as the code    *)
(* expects, while a tick sleeps inside _wait_for_ok_to_stop.               *)
(*                                                                         *)
(* Strings the code splits or concatenates are sequences of tokens:        *)
(* an image reference is the sequence of its '/'-separated segments, a     *)
(* version string is [prefix, parts] (whether it starts with               *)
(* 'ceph version ' and its '.'-separated parts), an error is               *)
(* <<alert_id, summary>>.  None, '' and [] are the empty sequence where    *)
(* the code only tests truthiness.                                         *)
(***************************************************************************)
EXTENDS Integers, Sequences, FiniteSets, TLC

VARIABLES
    upgrade_state,   \* CephadmUpgrade.upgrade_state: NoState or an UpgradeState record
    store,           \* mgr key-value store entry 'upgrade_state': NoStore or the JSON object
    health_checks,   \* mgr.health_checks restricted to the upgrade alert codes
    progress,        \* progress sink: ids of the events that are open
    next_uuid,       \* number of uuid4() values drawn so far
    daemons,         \* mgr.cache: daemon name -> DaemonDescription
    self_mgr,        \* name of the manager daemon hosting the controller
    config,          \* cluster config: section -> container_image value (NoImage when unset)
    osd_release,     \* osd_map['require_osd_release']
    operator_paused, \* the pause in force was requested by the operator
    use_repo_digest, \* mgr.use_repo_digest
    registry,        \* repo digests the registry serves for the target image
    pc,              \* position of the tick: "idle" between ticks
    loc,             \* locals of _do_upgrade
    last_op,         \* the last control operation and how it ended
    tick,            \* what the current / last tick did
    faults,          \* failures the environment has injected so far
    fs_map,          \* mgr.get("fs_map"): filesystem id -> its mdsmap (max_mds)
    call,            \* an application of a pure function: its arguments and its result
    ticks            \* ticks run since Init where they are counted, else NoCount

vars == <<upgrade_state, store, health_checks, progress, next_uuid, daemons,
          self_mgr, config, osd_release, operator_paused, use_repo_digest, registry, pc, loc, last_op, tick, faults,
          fs_map, call, ticks>>

----------------------------------------------------------------------------
\* Bounds of the model.

\* uuid4() draws: at most this many upgrades are started in one behaviour.
MaxUuid == 1

\* Failures of the environment (a failed RPC, pull, probe or redeploy, a digest
\* drift, a manager that stops) in one behaviour.
MaxFaults == 1

\* tries = 4 in _wait_for_ok_to_stop.
Tries == 4

----------------------------------------------------------------------------
\* Sequences helpers.

RECURSIVE SeqToSet(_)
SeqToSet(s) == IF s = <<>> THEN {} ELSE {Head(s)} \cup SeqToSet(Tail(s))

----------------------------------------------------------------------------
\* The environment's tables (cephadm/utils.py, the daemon cache).

\* CEPH_UPGRADE_ORDER: monitors, managers, storage, metadata, gateways, monitoring.
CEPH_UPGRADE_ORDER == <<"mon", "mgr", "osd", "mds", "rgw", "prometheus">>

MONITORING_STACK_TYPES == {"prometheus"}

\* The daemons a cluster may have, in the order mgr.cache.get_daemons() lists
\* them; the daemons of the cluster are DOMAIN daemons.
DaemonNames == <<"mon.a", "mon.b", "mon.c", "mgr.x", "mgr.y", "osd.0", "osd.1", "osd.2", "osd.3", "osd.4", "osd.5", "mds.a">>

\* the cluster of Spec
SmallCluster == {"mon.a", "mgr.x", "mgr.y", "osd.0"}

daemon_type_of(n) ==
    CASE n \in {"mon.a", "mon.b", "mon.c"} -> "mon"
      [] n \in {"mgr.x", "mgr.y"} -> "mgr"
      [] n \in {"osd.0", "osd.1", "osd.2", "osd.3", "osd.4", "osd.5"} -> "osd"
      [] n = "mds.a" -> "mds"

\* name_to_config_section(daemon_type): the class's config section.
\* A section is [who, sub]: sub = "" for the class section, the daemon id for
\* a per-daemon override 'who.sub'.
name_to_config_section(daemon_type) == [who |-> daemon_type, sub |-> ""]

GlobalSection == [who |-> "global", sub |-> ""]

Sections ==
    {GlobalSection}
    \cup {name_to_config_section(CEPH_UPGRADE_ORDER[i]) : i \in 1..Len(CEPH_UPGRADE_ORDER)}
    \cup {[who |-> "osd", sub |-> "0"]}

\* section.startswith(prefix_section + '.')
SectionStartsWith(section, daemon_type) ==
    section.who = name_to_config_section(daemon_type).who /\ section.sub # ""

NoImage == <<>>
OldImage == <<"docker.io", "ceph", "ceph:v15">>
OldDigest == "sha256:old"

\* ceph_release_to_major / mgr.lookup_release_name
ceph_release_to_major(name) ==
    CASE name = "nautilus" -> 14
      [] name = "octopus" -> 15
      [] name = "pacific" -> 16
      [] name = "quincy" -> 17
      [] OTHER -> 0

lookup_release_name(major) ==
    CASE major = 14 -> "nautilus"
      [] major = 15 -> "octopus"
      [] major = 16 -> "pacific"
      [] major = 17 -> "quincy"
      [] OTHER -> "unknown"

----------------------------------------------------------------------------
\* normalize_image_digest

HasDot(segment) == segment \in {"docker.io", "quay.io"}

normalize_image_digest(digest) ==
    IF ~HasDot(digest[1]) \/ Len(digest) < 3
    THEN <<"docker.io">> \o digest
    ELSE digest

----------------------------------------------------------------------------
\* Version strings.

NoVersion == [prefix |-> FALSE, parts |-> <<>>]

IsInt(tok) == tok \in {"-1", "0", "1", "2", "3", "5", "13", "14", "15", "16", "17", "18"}

IntOf(tok) ==
    CASE tok = "-1" -> -1
      [] tok = "0" -> 0
      [] tok = "1" -> 1
      [] tok = "2" -> 2
      [] tok = "3" -> 3
      [] tok = "5" -> 5
      [] tok = "13" -> 13
      [] tok = "14" -> 14
      [] tok = "15" -> 15
      [] tok = "16" -> 16
      [] tok = "17" -> 17
      [] tok = "18" -> 18

\* mgr.version.split('ceph version ')[1].split('-')[0].split('.', 2)
CurrentVersion == <<"15", "2", "13">>

\* mon_map['min_mon_release']
MinMonRelease == 15

\* a jump check that allows one major only
TooBigAJumpOfTwo(current_major, major) == current_major < major - 1

\* 'if int(current_major) < int(major) - 2'
TooBigAJump(current_major, major) == current_major < major - 2

\* a policy that never compares the minors
MinorDowngradeIgnored(current_minor, minor) == FALSE

\* 'if int(current_minor) > int(minor)' (same major)
MinorDowngrade(current_minor, minor) == current_minor > minor

\* _check_target_version: "ok", the reason it returns, or the exception it raises.
\* version.split('.', 2) yields three parts when the string has at least two dots;
\* a string that starts with 'ceph version ' has a first part that is no integer.
_check_target_version(version, current, mon_min, osd_min_name) ==
    LET p == version.parts
        major == p[1]
        minor == p[2]
    IN  IF Len(p) < 3 THEN "form"
        ELSE IF ~IsInt(minor) THEN "form"
        ELSE IF IntOf(minor) < 0 THEN "AssertionError"
        ELSE IF version.prefix \/ ~IsInt(major) THEN "ValueError"
        ELSE IF IntOf(major) < 15 \/ (IntOf(major) = 15 /\ IntOf(minor) < 2) THEN "floor"
        ELSE IF TooBigAJump(IntOf(current[1]), IntOf(major)) THEN "too_big_a_jump"
        ELSE IF IntOf(current[1]) > IntOf(major) THEN "downgrade_major"
        ELSE IF IntOf(current[1]) = IntOf(major)
                /\ MinorDowngrade(IntOf(current[2]), IntOf(minor)) THEN "downgrade_minor"
        ELSE IF mon_min < IntOf(major) - 2 THEN "min_mon_release"
        ELSE IF ceph_release_to_major(osd_min_name) < IntOf(major) - 2 THEN "require_osd_release"
        ELSE "ok"

CheckRaises(r) == r \in {"AssertionError", "ValueError"}

----------------------------------------------------------------------------
\* UpgradeState and its JSON form.

NoState == [none |-> TRUE]
NoStore == [none |-> TRUE]

UPGRADE_ERRORS == {"UPGRADE_NO_STANDBY_MGR", "UPGRADE_FAILED_PULL",
                   "UPGRADE_REDEPLOY_DAEMON", "UPGRADE_BAD_TARGET_VERSION",
                   "UPGRADE_EXCEPTION"}

NoError == <<>>

\* UpgradeState.__init__
UpgradeState(target_name, progress_id, target_id, target_digests, target_version, error, paused, fs_original_max_mds) ==
    [_target_name |-> target_name,
     progress_id |-> progress_id,
     target_id |-> target_id,
     target_digests |-> target_digests,
     target_version |-> target_version,
     error |-> error,
     paused |-> paused,
     fs_original_max_mds |-> fs_original_max_mds]

\* json.dumps turns the int keys of a dict into strings.
JsonKey(k) == [k EXCEPT !.t = "str"]

JsonDict(d) ==
    IF DOMAIN d = {} THEN <<>> ELSE
    [k \in {JsonKey(x) : x \in DOMAIN d} |->
        LET src == {x \in DOMAIN d : JsonKey(x) = k}
        IN  d[CHOOSE x \in src : \A y \in src : x.t = "str" => y = x]]

\* UpgradeState.to_json followed by json.dumps
to_json(s) ==
    [target_name |-> s._target_name,
     progress_id |-> s.progress_id,
     target_id |-> s.target_id,
     target_digests |-> s.target_digests,
     target_version |-> s.target_version,
     fs_original_max_mds |-> JsonDict(s.fs_original_max_mds),
     error |-> s.error,
     paused |-> s.paused]

\* json.loads followed by UpgradeState.from_json
from_json(data) ==
    IF data = NoStore THEN NoState
    ELSE UpgradeState(data.target_name, data.progress_id, data.target_id,
                      IF "repo_digest" \in DOMAIN data
                      THEN <<data.repo_digest>> ELSE data.target_digests,
                      data.target_version, data.error,
                      data.paused, data.fs_original_max_mds)

\* a filesystem id as the key of fs_original_max_mds: an int in memory
IntKey(fs_id) == [t |-> "int", v |-> fs_id]

\* fs_original_max_mds.get(fs_id): 0 stands for None
GetMaxMds(original, fs_id) ==
    IF IntKey(fs_id) \in DOMAIN original THEN original[IntKey(fs_id)] ELSE 0

\* _save_upgrade_state: the value written to the store
_save_upgrade_state(s) == IF s = NoState THEN NoStore ELSE to_json(s)

----------------------------------------------------------------------------
\* The state after construction.

NoId == ""

\* a DaemonDescription of the cache
Daemon(image_name, image_id, digests, deployed_by, status) ==
    [container_image_name |-> image_name,
     container_image_id |-> image_id,
     container_image_digests |-> digests,
     deployed_by |-> deployed_by,
     status |-> status]

LocInit ==
    [target_image |-> NoImage, target_digests |-> <<>>, target_version |-> NoVersion,
     target_major |-> "", first |-> FALSE, image_settings |-> <<>>,
     ci |-> 0, done |-> 0, need_upgrade_self |-> FALSE, need_upgrade |-> <<>>,
     to_upgrade |-> <<>>, known_ok_to_stop |-> {}, gi |-> 0, ui |-> 0, tries |-> 0]

\* What a tick did: pre is the state it found ("absent", "paused", "active"),
\* ret its return value ("none" while it runs or when it never returns).
TickInit ==
    [pre |-> "none", ret |-> "none", pre_error |-> NoError,
     effects |-> {}, redeployed |-> {}, blocked_by |-> {}, skipped |-> {},
     walked |-> {}, needy |-> {}, cleanup |-> {}, first_pull |-> "none",
     raised |-> FALSE, image |-> NoImage,
     pre_alerts |-> {}, drift |-> FALSE, pulled |-> <<>>, off_target |-> {},
     deployer_before_self |-> {}, mds_scaled |-> FALSE, mds_restored |-> FALSE,
     ok_waited |-> {}, peers |-> {}, wait_failed |-> {}, unprobed |-> {},
     probes |-> 0, wait_ret |-> "none", wait_aborted |-> FALSE, monmap |-> 0,
     peer_gated |-> {}]

\* unsaved: the external effects the call performed while the UpgradeState in
\* memory differed from the stored one
\* no filesystem in the fs_map
NoFs == <<>>

\* no pure function has been applied
NoCall == [fn |-> "none"]

\* the ticks are not counted
NoCount == [counting |-> FALSE, n |-> 0]

\* the ticks counted at most
MaxTicks == 13

\* one more invocation of continue_upgrade
CountTick(t) == IF t.counting THEN [t EXCEPT !.n = @ + 1] ELSE t

NoOp == [op |-> "none", result |-> "none", target |-> NoImage, unsaved |-> {}]

\* a controller constructed over an empty store, in a cluster on the old image
Constructed ==
    /\ upgrade_state = NoState
    /\ store = NoStore
    /\ health_checks = {}
    /\ progress = {}
    /\ next_uuid = 0
    /\ self_mgr = "mgr.x"
    /\ config = [s \in Sections |->
                    IF s = GlobalSection \/ s.sub # "" THEN OldImage ELSE NoImage]
    /\ osd_release = "octopus"
    /\ operator_paused = FALSE
    /\ use_repo_digest = TRUE
    /\ registry = <<"sha256:A">>
    /\ pc = "idle"
    /\ loc = LocInit
    /\ last_op = NoOp
    /\ tick = TickInit

\* ... in an environment that may still fail MaxFaults times
Fresh == Constructed /\ faults = 0

Init ==
    /\ Fresh
    /\ daemons = [n \in SmallCluster |->
                    Daemon(OldImage, "id:old", {OldDigest}, {OldDigest}, "running")]
    /\ fs_map = NoFs
    /\ call = NoCall
    /\ ticks = NoCount

----------------------------------------------------------------------------
\* target_image (property)

target_image(s) ==
    IF ~use_repo_digest THEN s._target_name
    ELSE IF s.target_digests = <<>> THEN s._target_name
    ELSE <<s.target_digests[1]>>

\* _clear_upgrade_health_checks: the health checks it leaves
_clear_upgrade_health_checks(hc) == hc \ UPGRADE_ERRORS

\* a failure that records the error and forgets to pause
FailWithoutPause(s, alert_id, summary) == [s EXCEPT !.error = <<alert_id, summary>>]

\* _fail_upgrade: the UpgradeState it leaves (the caller saves it and adds the alert)
_fail_upgrade(s, alert_id, summary) ==
    [s EXCEPT !.error = <<alert_id, summary>>, !.paused = TRUE]

\* the health checks _fail_upgrade leaves
_fail_upgrade_health(hc, alert_id) == hc \cup {alert_id}

----------------------------------------------------------------------------
\* The control operations.  They run between ticks (pc = "idle"); pause and
\* stop also run while a tick sleeps in _wait_for_ok_to_stop (pc = "wait").

container_image_base == <<"docker.io", "ceph", "ceph">>

\* the images and versions an operator passes to start
StartImages == {<<>>, <<"ceph", "ceph">>, <<"docker.io", "ceph", "ceph">>}
StartVersions == {NoVersion,
                  [prefix |-> FALSE, parts |-> <<"16", "2", "5">>],
                  [prefix |-> FALSE, parts |-> <<"18", "2", "0">>]}

\* upgrade_start: the target name computed from the arguments
StartTargetName(image, version) ==
    IF version # NoVersion THEN container_image_base \o <<":v">> \o version.parts
    ELSE IF image # NoImage THEN normalize_image_digest(image)
    ELSE NoImage

\* a start that never compares the targets
AnyTargetAccepted(s, target_name) == FALSE

\* upgrade_start: 'Upgrade to %s (not %s) already in progress'
OtherTargetInProgress(s, target_name) == s._target_name # target_name

running_mgr_count ==
    Cardinality({n \in DOMAIN daemons : daemon_type_of(n) = "mgr" /\ daemons[n].status = "running"})

\* the tick is in time.sleep(15) of _wait_for_ok_to_stop
Sleeping == pc = "wait" /\ loc.tries < Tries

TickGhostAfterOp == IF pc = "idle" THEN TickInit ELSE tick

\* a control operation that raises or reports: nothing but the record of it changes
Raise(op, target, what) ==
    /\ last_op' = [op |-> op, result |-> what, target |-> target, unsaved |-> {}]
    /\ tick' = TickGhostAfterOp
    /\ UNCHANGED <<upgrade_state, store, health_checks, progress, next_uuid, daemons,
                   self_mgr, config, osd_release, operator_paused, use_repo_digest, fs_map, call, ticks,
                   registry, pc, loc, faults>>

\* a control operation that changes the UpgradeState and saves it
Saved(op, target, what, s, by_operator) ==
    /\ upgrade_state' = s
    /\ store' = _save_upgrade_state(s)
    /\ operator_paused' = by_operator
    /\ last_op' = [op |-> op, result |-> what, target |-> target, unsaved |-> {}]
    /\ tick' = TickGhostAfterOp
    /\ UNCHANGED <<health_checks, progress, next_uuid, daemons, self_mgr, config,
                   osd_release, use_repo_digest, fs_map, call, ticks, registry, pc, loc, faults>>

\* the effects performed between a write to the UpgradeState s and its save,
\* st being the store at that moment
ActedUnsaved(s, st, effects) == IF _save_upgrade_state(s) # st THEN effects ELSE {}

\* a start that builds the UpgradeState anew for a target already in progress
StartResumeAnew(s) ==
    UpgradeState(s._target_name, s.progress_id, NoId, <<>>, NoVersion, NoError, FALSE, <<>>)

\* upgrade_start, same target and paused: 'self.upgrade_state.paused = False'
StartResume(s) == [s EXCEPT !.paused = FALSE]

upgrade_start(mode, image, version) ==
    /\ pc = "idle"
    /\ LET check == _check_target_version(version, CurrentVersion, MinMonRelease, osd_release)
           target_name == StartTargetName(image, version)
       IN  IF mode # "root" THEN Raise("start", NoImage, "OrchestratorError")
           ELSE IF version # NoVersion /\ CheckRaises(check)
           THEN Raise("start", NoImage, check)
           ELSE IF version # NoVersion /\ check # "ok"
           THEN Raise("start", NoImage, "OrchestratorError")
           ELSE IF version = NoVersion /\ image = <<>>
           THEN Raise("start", NoImage, "OrchestratorError")
           ELSE IF upgrade_state # NoState THEN
                IF OtherTargetInProgress(upgrade_state, target_name)
                THEN Raise("start", target_name, "OrchestratorError")
                ELSE IF upgrade_state.paused
                THEN Saved("start", target_name, "resumed", StartResume(upgrade_state), FALSE)
                ELSE Raise("start", target_name, "in_progress")
           ELSE IF running_mgr_count < 2
           THEN Raise("start", target_name, "OrchestratorError")
           ELSE /\ next_uuid < MaxUuid
                /\ next_uuid' = next_uuid + 1
                /\ upgrade_state' = UpgradeState(target_name, next_uuid', NoId, <<>>,
                                                 NoVersion, NoError, FALSE, <<>>)
                /\ progress' = progress \cup {next_uuid'}
                /\ store' = _save_upgrade_state(upgrade_state')
                /\ health_checks' = _clear_upgrade_health_checks(health_checks)
                /\ operator_paused' = FALSE
                /\ last_op' = [op |-> "start", result |-> "initiated", target |-> target_name,
                               unsaved |-> ActedUnsaved(upgrade_state', store, {"progress"})]
                /\ tick' = TickGhostAfterOp
                /\ UNCHANGED <<daemons, self_mgr, config, osd_release, use_repo_digest, fs_map, call, ticks,
                               registry, pc, loc, faults>>

upgrade_pause ==
    /\ pc = "idle" \/ Sleeping
    /\ IF upgrade_state = NoState THEN Raise("pause", NoImage, "OrchestratorError")
       ELSE IF upgrade_state.paused THEN Raise("pause", NoImage, "already_paused")
       ELSE Saved("pause", NoImage, "paused", [upgrade_state EXCEPT !.paused = TRUE], TRUE)

upgrade_resume ==
    /\ pc = "idle"
    /\ IF upgrade_state = NoState THEN Raise("resume", NoImage, "OrchestratorError")
       ELSE IF ~upgrade_state.paused THEN Raise("resume", NoImage, "not_paused")
       ELSE Saved("resume", NoImage, "resumed", [upgrade_state EXCEPT !.paused = FALSE], FALSE)

upgrade_stop ==
    /\ pc = "idle" \/ Sleeping
    /\ IF upgrade_state = NoState THEN Raise("stop", NoImage, "no_upgrade")
       ELSE /\ progress' = IF upgrade_state.progress_id # 0
                           THEN progress \ {upgrade_state.progress_id} ELSE progress
            /\ upgrade_state' = NoState
            /\ store' = _save_upgrade_state(upgrade_state')
            /\ health_checks' = _clear_upgrade_health_checks(health_checks)
            /\ operator_paused' = FALSE
            /\ last_op' = [op |-> "stop", result |-> "stopped", target |-> NoImage,
                           unsaved |-> {}]
            /\ tick' = TickGhostAfterOp
            /\ UNCHANGED <<next_uuid, daemons, self_mgr, config, osd_release,
                           use_repo_digest, fs_map, call, ticks, registry, pc, loc, faults>>

----------------------------------------------------------------------------
\* The tick: continue_upgrade and the steps of _do_upgrade.

\* a tick that forgets to look at paused
ShouldContinueIgnoringPause(s) == s # NoState

\* continue_upgrade: 'if self.upgrade_state and not self.upgrade_state.paused'
ShouldContinue(s) == s # NoState /\ ~s.paused

\* the tick returns: ret is what continue_upgrade returns
EndTick(s, st, hc, ret, tk) ==
    /\ upgrade_state' = s
    /\ store' = st
    /\ health_checks' = hc
    /\ pc' = "idle"
    /\ loc' = LocInit
    /\ tick' = [tk EXCEPT !.ret = ret]

\* _do_upgrade calls _fail_upgrade(alert_id, ...) and returns
FailTick(s, st, hc, alert_id, summary, tk) ==
    IF s = NoState THEN EndTick(s, st, hc, "true", tk)
    ELSE EndTick(_fail_upgrade(s, alert_id, summary),
                 _save_upgrade_state(_fail_upgrade(s, alert_id, summary)),
                 _fail_upgrade_health(hc, alert_id), "true", tk)

\* the except clause of continue_upgrade
ExceptTick(s, st, hc, tk) ==
    IF s = NoState THEN EndTick(s, st, hc, "false", [tk EXCEPT !.raised = TRUE])
    ELSE EndTick(_fail_upgrade(s, "UPGRADE_EXCEPTION", "unexpected exception"),
                 _save_upgrade_state(_fail_upgrade(s, "UPGRADE_EXCEPTION", "unexpected exception")),
                 _fail_upgrade_health(hc, "UPGRADE_EXCEPTION"), "false",
                 [tk EXCEPT !.raised = TRUE])

\* the environment injects a failure / behaves
Anomaly == faults < MaxFaults /\ faults' = faults + 1
Normal == faults' = faults

continue_upgrade ==
    /\ pc = "idle"
    /\ ticks.counting => ticks.n < MaxTicks
    /\ ticks' = CountTick(ticks)
    /\ last_op' = NoOp
    /\ Normal
    /\ IF ShouldContinue(upgrade_state)
       THEN /\ pc' = "do_upgrade"
            /\ tick' = [TickInit EXCEPT !.pre = "active", !.pre_error = upgrade_state.error,
                                        !.pre_alerts = health_checks]
            /\ UNCHANGED <<upgrade_state, store, health_checks, progress, next_uuid, daemons,
                           self_mgr, config, osd_release, operator_paused, use_repo_digest, fs_map, call, registry, loc>>
       ELSE /\ tick' = [TickInit EXCEPT
                          !.pre = IF upgrade_state = NoState THEN "absent" ELSE "paused",
                          !.ret = "false"]
            /\ UNCHANGED <<upgrade_state, store, health_checks, progress, next_uuid, daemons,
                           self_mgr, config, osd_release, operator_paused, use_repo_digest, fs_map, call, registry, pc, loc, faults>>

\* What CephadmServe._get_container_image_info hands back: an exception, or
\* (image id, 'ceph version X.Y.Z (sha)', digests).
CephVersion(parts) == [prefix |-> TRUE, parts |-> parts]

\* the pull of a sound image
GoodPull == [kind |-> "ok", id |-> "id:new", version |-> CephVersion(<<"16", "2", "5">>),
             digests |-> registry]

\* a pull whose result carries a version and digests but no image id
NoIdPull == [GoodPull EXCEPT !.id = NoId]

ResolverOutcomes ==
    {[kind |-> "OrchestratorError"], [kind |-> "Exception"], GoodPull, NoIdPull,
     [kind |-> "ok", id |-> "id:new", version |-> CephVersion(<<"18", "2", "0">>),
      digests |-> registry]}

\* 'if not target_id or not target_version or not target_digests'
NeedFirstPull(s) ==
    s.target_id = NoId \/ s.target_version = NoVersion \/ s.target_digests = <<>>

\* target_version.split(' ')[2] of 'ceph version X.Y.Z (sha)'
VersionWord(version) == [prefix |-> FALSE, parts |-> version.parts]

\* _do_upgrade up to the first pull
do_upgrade_first_pull ==
    /\ pc = "do_upgrade"
    /\ UNCHANGED <<progress, next_uuid, daemons, self_mgr, config, osd_release, operator_paused,
                   use_repo_digest, fs_map, call, ticks, registry, last_op>>
    /\ LET s == upgrade_state
       IN  IF s = NoState THEN EndTick(s, store, health_checks, "true", tick) /\ Normal
           ELSE IF ~NeedFirstPull(s)
           THEN /\ Normal
                /\ loc' = [LocInit EXCEPT !.target_image = target_image(s),
                                          !.target_digests = s.target_digests,
                                          !.target_version = s.target_version]
                /\ pc' = "validate"
                /\ UNCHANGED <<upgrade_state, store, health_checks, tick>>
           ELSE \E out \in ResolverOutcomes :
                LET tk == [tick EXCEPT !.effects = @ \cup {"pull"},
                                       !.first_pull = "failed"]
                IN  /\ IF out = GoodPull THEN Normal ELSE Anomaly
                    /\ IF out.kind = "OrchestratorError"
                       THEN FailTick(s, store, health_checks, "UPGRADE_FAILED_PULL",
                                     "failed to pull target image", tk)
                       ELSE IF out.kind = "Exception"
                       THEN ExceptTick(s, store, health_checks, tk)
                       ELSE IF out.version = NoVersion
                       THEN FailTick(s, store, health_checks, "UPGRADE_FAILED_PULL",
                                     "failed to pull target image", tk)
                       ELSE IF ~out.version.prefix
                       THEN \* split(' ')[2] raises IndexError after target_id was assigned
                            ExceptTick([s EXCEPT !.target_id = out.id], store,
                                       health_checks, tk)
                       ELSE LET s2 == [s EXCEPT !.target_id = out.id,
                                                !.target_version = VersionWord(out.version),
                                                !.target_digests = out.digests]
                            IN  /\ upgrade_state' = s2
                                /\ store' = _save_upgrade_state(s2)
                                /\ loc' = [LocInit EXCEPT
                                             !.target_image = target_image(s2),
                                             !.target_digests = out.digests,
                                             !.target_version = out.version,
                                             !.first = TRUE]
                                /\ pc' = "validate"
                                /\ tick' = [tk EXCEPT !.first_pull = "ok"]
                                /\ UNCHANGED health_checks

\* _do_upgrade from the legacy-version rewrite to the daemon list
do_upgrade_validate ==
    /\ pc = "validate"
    /\ UNCHANGED <<progress, next_uuid, daemons, self_mgr, config, osd_release, operator_paused,
                   use_repo_digest, fs_map, call, ticks, registry, last_op>>
    /\ LET s == IF loc.target_version.prefix
                THEN [upgrade_state EXCEPT !.target_version = VersionWord(loc.target_version)]
                ELSE upgrade_state
           target_version == IF loc.target_version.prefix
                             THEN VersionWord(loc.target_version) ELSE loc.target_version
           check == _check_target_version(target_version, CurrentVersion, MinMonRelease,
                                          osd_release)
       IN  IF Len(target_version.parts) < 2 \/ ~IsInt(target_version.parts[1])
           THEN \* split('.', 1) or int(target_major) raises ValueError
                ExceptTick(s, store, health_checks, tick) /\ Normal
           ELSE IF CheckRaises(check)
           THEN ExceptTick(s, store, health_checks, tick) /\ Normal
           ELSE IF check # "ok"
           THEN FailTick(s, store, health_checks, "UPGRADE_BAD_TARGET_VERSION",
                         "cannot upgrade/downgrade", tick) /\ Normal
           ELSE \E rpc \in {"ok", "raise"} :
                IF rpc = "raise" THEN ExceptTick(s, store, health_checks, tick) /\ Anomaly
                ELSE /\ Normal
                     /\ upgrade_state' = s
                     /\ loc' = [loc EXCEPT !.target_version = target_version,
                                           !.target_major = target_version.parts[1],
                                           !.image_settings = config,
                                           !.ci = 1, !.done = 0]
                     /\ pc' = "class"
                     /\ UNCHANGED <<store, health_checks, tick>>

----------------------------------------------------------------------------
\* The per-class traversal.

Intersects(set, seq) == set \cap SeqToSet(seq) # {}

\* daemons of one class, in cache order
DaemonsOfType(daemon_type) ==
    SelectSeq(DaemonNames, LAMBDA n : n \in DOMAIN daemons /\ daemon_type_of(n) = daemon_type)

\* mgr.daemon_is_self
daemon_is_self(n) == daemon_type_of(n) = "mgr" /\ n = self_mgr

\* the partition of lines 544-570: "done", "self", "deployer" or "upgrade"
Classify(n, target_digests) ==
    LET d == daemons[n]
        correct_digest == Intersects(d.container_image_digests, target_digests)
                          \/ daemon_type_of(n) \in MONITORING_STACK_TYPES
    IN  IF correct_digest /\ Intersects(d.deployed_by, target_digests) THEN "done"
        ELSE IF daemon_is_self(n) THEN "self"
        ELSE IF correct_digest THEN "deployer"
        ELSE "upgrade"

NamesClassified(daemon_type, target_digests, as) ==
    SelectSeq(DaemonsOfType(daemon_type), LAMBDA n : Classify(n, target_digests) = as)

Entries(names, flag) == [i \in 1..Len(names) |-> [name |-> names[i], deployer |-> flag]]

\* 'if not need_upgrade_self: need_upgrade += need_upgrade_deployer'
MergeDeployer(need_upgrade, need_upgrade_deployer, need_upgrade_self) ==
    IF ~need_upgrade_self THEN need_upgrade \o need_upgrade_deployer ELSE need_upgrade

\* a skip that forgets to compare the image name
SkipAnyUnknownId(n, image) == daemons[n].container_image_id = NoId

\* a daemon whose cache entry has no image id yet but already names the target image
SkipUnknownId(n, image) ==
    daemons[n].container_image_id = NoId /\ daemons[n].container_image_name = image

Earlier(t1, t2) ==
    \E i, j \in 1..Len(CEPH_UPGRADE_ORDER) :
        i < j /\ CEPH_UPGRADE_ORDER[i] = t1 /\ CEPH_UPGRADE_ORDER[j] = t2

\* the loop over need_upgrade has ended: redeploy the batch, or complete the class
AfterGate(to_upgrade, known, tk) ==
    /\ loc' = [loc EXCEPT !.to_upgrade = to_upgrade, !.known_ok_to_stop = known,
                          !.gi = 0, !.tries = 0,
                          !.ui = IF to_upgrade = <<>> THEN 0 ELSE 1]
    /\ pc' = IF to_upgrade = <<>> THEN "complete" ELSE "upgrade"
    /\ tick' = tk

\* the major version an mds daemon runs, as mds_metadata reports it
MdsMajor(n, target_major) ==
    IF daemons[n].container_image_name = OldImage
    THEN IntOf(CurrentVersion[1]) ELSE IntOf(target_major)

\* _prepare_for_mds_upgrade: 'if int(major_version) < int(target_major)'
MdsScaleDown(target_major) ==
    \E n \in DOMAIN daemons :
        daemon_type_of(n) = "mds" /\ MdsMajor(n, target_major) < IntOf(target_major)

\* the filesystems with 'fs["max_mds"] > 1'
ToScaleDown == {f \in DOMAIN fs_map : fs_map[f].max_mds > 1}

\* 'if fs_id not in fs_original_max_mds: fs_original_max_mds[fs_id] = fs["max_mds"]'
RecordMaxMds(original) ==
    IF DOMAIN original \cup {IntKey(f) : f \in ToScaleDown} = {} THEN <<>>
    ELSE [k \in DOMAIN original \cup {IntKey(f) : f \in ToScaleDown} |->
             IF k \in DOMAIN original THEN original[k] ELSE fs_map[k.v].max_mds]

\* 'fs set <fs_name> max_mds 1' for every filesystem with max_mds > 1
ScaledDown == [f \in DOMAIN fs_map |-> [fs_map[f] EXCEPT !.max_mds = IF @ > 1 THEN 1 ELSE @]]

\* lines 533-589: partition the daemons of class CEPH_UPGRADE_ORDER[ci], and
\* prepare the filesystems when the class is mds
do_upgrade_class ==
    /\ pc = "class"
    /\ UNCHANGED <<progress, next_uuid, daemons, self_mgr, config, osd_release,
                   operator_paused, use_repo_digest, call, ticks, registry, last_op>>
    /\ LET daemon_type == CEPH_UPGRADE_ORDER[loc.ci]
           td == loc.target_digests
           need_upgrade_self == NamesClassified(daemon_type, td, "self") # <<>>
           need_upgrade == MergeDeployer(
                               Entries(NamesClassified(daemon_type, td, "upgrade"), FALSE),
                               Entries(NamesClassified(daemon_type, td, "deployer"), TRUE),
                               need_upgrade_self)
           needy == {n \in SeqToSet(DaemonsOfType(daemon_type)) : Classify(n, td) # "done"}
           tk == [tick EXCEPT !.needy = @ \cup needy]
           Partitioned ==
               /\ loc' = [loc EXCEPT
                            !.done = @ + Len(NamesClassified(daemon_type, td, "done")),
                            !.need_upgrade_self = need_upgrade_self,
                            !.need_upgrade = need_upgrade,
                            !.to_upgrade = <<>>, !.known_ok_to_stop = {},
                            !.gi = IF need_upgrade = <<>> THEN 0 ELSE 1]
               /\ pc' = IF need_upgrade = <<>> THEN "complete" ELSE "gate"
               /\ tick' = tk
               /\ UNCHANGED <<upgrade_state, store, health_checks>>
       IN  IF daemon_type = "mds" /\ need_upgrade # <<>> /\ MdsScaleDown(loc.target_major)
           THEN \E settled \in BOOLEAN :
                  IF ToScaleDown # {}
                  THEN \* record, save, scale down, and return from the tick
                       LET s == [upgrade_state EXCEPT
                                   !.fs_original_max_mds = RecordMaxMds(@)]
                       IN  /\ settled
                           /\ Normal
                           /\ fs_map' = ScaledDown
                           /\ EndTick(s, _save_upgrade_state(s), health_checks, "true",
                                      [tk EXCEPT !.effects = @ \cup {"config"},
                                                 !.mds_scaled = TRUE])
                  ELSE IF ~settled
                  THEN \* an mds has not settled yet: sleep and return from the tick
                       /\ Normal
                       /\ UNCHANGED fs_map
                       /\ EndTick(upgrade_state, store, health_checks, "true", tk)
                  ELSE Partitioned /\ Normal /\ UNCHANGED fs_map
           ELSE Partitioned /\ Normal /\ UNCHANGED fs_map

\* _enough_mds_for_ok_to_stop: the mds daemons of the model serve one
\* filesystem, the first of the fs_map; an mds without filesystem passes
_enough_mds_for_ok_to_stop(n) ==
    \/ DOMAIN fs_map = {}
    \/ LET f == CHOOSE x \in DOMAIN fs_map : \A y \in DOMAIN fs_map : x <= y
       IN  fs_map[f].max_mds < Len(DaemonsOfType("mds"))

\* the monitors the monmap of 'quorum_status' may list
MonMapSizes == {2, 3}

\* what 'quorum_status' answers: unparsable output, or a monmap
QuorumStatus ==
    {[kind |-> "bad_json", mons |-> 0]} \cup {[kind |-> "ok", mons |-> m] : m \in MonMapSizes}

\* a quorum check that takes two monitors for enough
EnoughMonsFromTwo(mons) == mons > 1

\* _enough_mons_for_ok_to_stop: 'return len(mons) > 2'
_enough_mons_for_ok_to_stop(mons) == mons > 2

\* a gate that takes every daemon once some peer list was returned
AlsoSafeWhoever(n, known) == TRUE

\* 'if d.name() in known_ok_to_stop': the daemon is also safe to restart
AlsoSafe(n, known) == n \in known

\* _wait_for_ok_to_stop is called: no probe of this call has failed yet
\* (probes counts the failed probes of the call that is running or has failed)
WaitBegins(tk) == [tk EXCEPT !.probes = 0, !.wait_ret = "none", !.wait_aborted = FALSE]

\* lines 590-626: one entry of need_upgrade
do_upgrade_gate ==
    /\ pc = "gate"
    /\ UNCHANGED <<progress, next_uuid, daemons, self_mgr, config, osd_release, operator_paused,
                   use_repo_digest, fs_map, call, ticks, registry, last_op>>
    /\ LET d_entry == loc.need_upgrade[loc.gi]
           n == d_entry.name
           last == loc.gi = Len(loc.need_upgrade)
           Continue(to_upgrade, tk) ==
               IF last THEN AfterGate(to_upgrade, loc.known_ok_to_stop, tk)
               ELSE /\ loc' = [loc EXCEPT !.to_upgrade = to_upgrade, !.gi = @ + 1]
                    /\ pc' = "gate"
                    /\ tick' = tk
       IN  IF SkipUnknownId(n, loc.target_image)
           THEN /\ Continue(loc.to_upgrade, [tick EXCEPT !.skipped = @ \cup {n}])
                /\ UNCHANGED <<upgrade_state, store, health_checks, faults>>
           ELSE IF loc.known_ok_to_stop # {}
           THEN /\ Continue(IF AlsoSafe(n, loc.known_ok_to_stop)
                            THEN Append(loc.to_upgrade, d_entry) ELSE loc.to_upgrade,
                            [tick EXCEPT !.peer_gated = @ \cup {daemon_type_of(n)}])
                /\ UNCHANGED <<upgrade_state, store, health_checks, faults>>
           ELSE IF daemon_type_of(n) = "osd"
           THEN /\ loc' = [loc EXCEPT !.tries = Tries]
                /\ pc' = "wait"
                /\ tick' = WaitBegins(tick)
                /\ UNCHANGED <<upgrade_state, store, health_checks, faults>>
           ELSE IF daemon_type_of(n) = "mon"
           THEN \E quorum \in QuorumStatus :
                  IF quorum.kind = "bad_json"
                  THEN ExceptTick(upgrade_state, store, health_checks, tick) /\ Anomaly
                  ELSE IF _enough_mons_for_ok_to_stop(quorum.mons)
                  THEN /\ Normal
                       /\ loc' = [loc EXCEPT !.tries = Tries]
                       /\ pc' = "wait"
                       /\ tick' = [WaitBegins(tick) EXCEPT !.monmap = quorum.mons]
                       /\ UNCHANGED <<upgrade_state, store, health_checks>>
                  ELSE /\ AfterGate(Append(loc.to_upgrade, d_entry), {},
                                    [tick EXCEPT !.unprobed = @ \cup {n},
                                                 !.monmap = quorum.mons])
                       /\ UNCHANGED <<upgrade_state, store, health_checks, faults>>
           ELSE IF daemon_type_of(n) = "mds" /\ _enough_mds_for_ok_to_stop(n)
           THEN /\ loc' = [loc EXCEPT !.tries = Tries]
                /\ pc' = "wait"
                /\ tick' = WaitBegins(tick)
                /\ UNCHANGED <<upgrade_state, store, health_checks, faults>>
           ELSE /\ AfterGate(Append(loc.to_upgrade, d_entry), {},
                             [tick EXCEPT !.unprobed = @ \cup {n}])
                /\ UNCHANGED <<upgrade_state, store, health_checks, faults>>

\* a wait that goes on probing while the upgrade is paused
WaitCancelledOnlyByStop(s) == s = NoState

\* 'if not self.upgrade_state or self.upgrade_state.paused: return False'
WaitCancelled(s) == s = NoState \/ s.paused

\* _wait_for_ok_to_stop: one pass of its loop, for need_upgrade[gi]
wait_for_ok_to_stop ==
    /\ pc = "wait"
    /\ UNCHANGED <<progress, next_uuid, daemons, self_mgr, config, osd_release, operator_paused,
                   use_repo_digest, fs_map, call, ticks, registry, last_op>>
    /\ LET d_entry == loc.need_upgrade[loc.gi]
           n == d_entry.name
           peers == SeqToSet(DaemonsOfType(daemon_type_of(n)))
           probed == [tick EXCEPT !.probes = @ + 1]
           failed(tk) == [tk EXCEPT !.wait_ret = "false", !.wait_failed = @ \cup {n}]
       IN  IF WaitCancelled(upgrade_state)
           THEN /\ EndTick(upgrade_state, store, health_checks, "true",
                           failed([tick EXCEPT !.wait_aborted = TRUE]))
                /\ Normal
           ELSE \E r \in {"raise", "ok", "not_ok"}, known \in SUBSET peers :
                  IF r = "raise"
                  THEN /\ known = {}
                       /\ ExceptTick(upgrade_state, store, health_checks, probed)
                       /\ Anomaly
                  ELSE IF r = "ok"
                  THEN LET tk == [tick EXCEPT !.probes = 0, !.wait_ret = "true",
                                                !.ok_waited = @ \cup {n},
                                                !.peers = @ \cup known]
                       IN  /\ UNCHANGED <<upgrade_state, store, health_checks, faults>>
                           /\ IF known = {} \/ loc.gi = Len(loc.need_upgrade)
                              THEN AfterGate(Append(loc.to_upgrade, d_entry), known, tk)
                              ELSE /\ loc' = [loc EXCEPT
                                                !.to_upgrade = Append(@, d_entry),
                                                !.known_ok_to_stop = known,
                                                !.gi = @ + 1, !.tries = 0]
                                   /\ pc' = "gate"
                                   /\ tick' = tk
                  ELSE /\ known = {}
                       /\ Normal
                       /\ IF loc.tries = 1
                          THEN EndTick(upgrade_state, store, health_checks, "true",
                                       failed(probed))
                          ELSE /\ loc' = [loc EXCEPT !.tries = @ - 1]
                               /\ tick' = probed
                               /\ UNCHANGED <<upgrade_state, store, health_checks, pc>>

\* the cache entry _daemon_action leaves for a redeployed daemon: the image it
\* was given (its own when none was given), nothing inspected yet
Redeployed(d, image) ==
    [d EXCEPT !.container_image_name = IF image = NoImage THEN @ ELSE image,
              !.container_image_id = NoId,
              !.container_image_digests = {},
              !.deployed_by = {}]

\* the image passed to _daemon_action: 'target_image if not d_entry[1] else None'
RedeployImage(d_entry, image) == IF ~d_entry.deployer THEN image ELSE NoImage

\* a batch after which the tick goes on to complete the class
AfterBatchGoesOn(s, st, hc, tk) ==
    /\ upgrade_state' = s
    /\ store' = st
    /\ health_checks' = hc
    /\ pc' = "complete"
    /\ loc' = [loc EXCEPT !.ui = 0]
    /\ tick' = tk

\* 'if to_upgrade: return': the tick returns after the batch
AfterBatch(s, st, hc, tk) == EndTick(s, st, hc, "true", tk)

\* the repo digests the registry may serve
RegistryDigests == {<<"sha256:A">>, <<"sha256:B">>}

\* a pull that never compares the pulled digests with target_digests
DriftIgnored(repo_digests, target_digests) == FALSE

\* 'if not any(d in target_digests for d in r.get('repo_digests', []))'
DriftDetected(repo_digests, target_digests) ==
    ~Intersects(SeqToSet(repo_digests), target_digests)

\* what 'inspect-image' on the daemon's host reports: output that is no JSON, a
\* non-zero code, or the repo digests of the image the host holds
InspectOutcomes == {<<"bad_json">>, <<"code">>} \cup RegistryDigests

\* 'if code or not any(d in target_digests for d in ...get('repo_digests', []))'
NeedsPull(inspect, target_digests) ==
    inspect = <<"code">> \/ ~Intersects(SeqToSet(inspect), target_digests)


\* lines 629-697: one entry of to_upgrade
do_upgrade_redeploy ==
    /\ pc = "upgrade"
    /\ UNCHANGED <<self_mgr, config, osd_release, operator_paused, use_repo_digest, fs_map, call, ticks, registry, last_op>>
    /\ LET d_entry == loc.to_upgrade[loc.ui]
           n == d_entry.name
           fresh == upgrade_state.progress_id = 0
           s == IF fresh THEN [upgrade_state EXCEPT !.progress_id = next_uuid + 1]
                ELSE upgrade_state
           st == IF fresh THEN _save_upgrade_state(s) ELSE store
           tk == [tick EXCEPT !.effects = @ \cup {"progress"}]
           blockers == {e \in DOMAIN daemons :
                          /\ Earlier(daemon_type_of(e), daemon_type_of(n))
                          /\ Classify(e, loc.target_digests) # "done"}
           Deploy(tkd, host_digests) ==
               \E rd \in {"ok", "raise"} :
                 IF rd = "raise"
                 THEN /\ FailTick(s, st, health_checks, "UPGRADE_REDEPLOY_DAEMON",
                                  "redeploy failed", tkd)
                      /\ Anomaly
                      /\ UNCHANGED daemons
                 ELSE /\ Normal
                      /\ daemons' = [daemons EXCEPT
                                       ![n] = Redeployed(@, RedeployImage(d_entry, loc.target_image))]
                      /\ LET tkr == [tkd EXCEPT !.effects = @ \cup {"redeploy"},
                                                !.redeployed = @ \cup {n},
                                                !.blocked_by = @ \cup blockers,
                                                !.image = loc.target_image,
                                                !.off_target = @ \cup
                                                    IF ~d_entry.deployer
                                                       /\ ~Intersects(SeqToSet(host_digests),
                                                                      loc.target_digests)
                                                    THEN {n} ELSE {},
                                                !.deployer_before_self = @ \cup
                                                    IF d_entry.deployer
                                                       /\ ~Intersects(daemons[self_mgr].container_image_digests,
                                                                      loc.target_digests)
                                                    THEN {n} ELSE {}]
                         IN  IF loc.ui = Len(loc.to_upgrade)
                             THEN AfterBatch(s, st, health_checks, tkr)
                             ELSE /\ upgrade_state' = s
                                  /\ store' = st
                                  /\ loc' = [loc EXCEPT !.ui = @ + 1]
                                  /\ tick' = tkr
                                  /\ UNCHANGED <<health_checks, pc>>
       IN  /\ progress' = progress \cup {s.progress_id}
           /\ next_uuid' = IF fresh THEN next_uuid + 1 ELSE next_uuid
           /\ \E inspect \in InspectOutcomes :
                IF inspect = <<"bad_json">>
                THEN ExceptTick(s, st, health_checks, tk) /\ Anomaly /\ UNCHANGED daemons
                ELSE IF ~NeedsPull(inspect, loc.target_digests)
                THEN Deploy(tk, inspect)
                ELSE \E pull \in {"fail", "bad_json", "ok"}, repo_digests \in {registry} :
                       LET tkp == [tk EXCEPT !.effects = @ \cup {"pull"}]
                       IN  IF pull = "fail"
                           THEN
                                /\ FailTick(s, st, health_checks, "UPGRADE_FAILED_PULL",
                                            "failed to pull target image", tkp)
                                /\ Anomaly
                                /\ UNCHANGED daemons
                           ELSE IF pull = "bad_json"
                           THEN
                                /\ ExceptTick(s, st, health_checks, tkp)
                                /\ Anomaly
                                /\ UNCHANGED daemons
                           ELSE IF DriftDetected(repo_digests, loc.target_digests)
                           THEN \* digest drift: replace target_digests, save, return
                                /\ EndTick([s EXCEPT !.target_digests = repo_digests],
                                           _save_upgrade_state([s EXCEPT !.target_digests = repo_digests]),
                                           health_checks, "true",
                                           [tkp EXCEPT !.drift = TRUE, !.pulled = repo_digests])
                                /\ Normal
                                /\ UNCHANGED daemons
                           ELSE Deploy(tkp, repo_digests)

\* the sections of image_settings that are per-daemon overrides of the class
ToClean(image_settings, daemon_type) ==
    {sec \in Sections : image_settings[sec] # NoImage /\ SectionStartsWith(sec, daemon_type)}

\* 'push down configs': the configuration after the class's completion
PushDownConfig(cfg, image_settings, daemon_type, image) ==
    [sec \in Sections |->
        IF sec = name_to_config_section(daemon_type)
           /\ image_settings[sec] # image THEN image
        ELSE IF sec \in ToClean(image_settings, daemon_type) THEN NoImage
        ELSE cfg[sec]]

\* 'complete osd upgrade?': require_osd_release after the osd class
CompleteOsd(release, target_major) ==
    IF ceph_release_to_major(release) < IntOf(target_major)
    THEN lookup_release_name(IntOf(target_major)) ELSE release

\* 'complete mds upgrade?': 'fs set <fs_name> max_mds <new_max>' for every
\* filesystem the record holds under its id
ScaledUp(original) ==
    [f \in DOMAIN fs_map |->
        IF GetMaxMds(original, f) # 0
        THEN [fs_map[f] EXCEPT !.max_mds = GetMaxMds(original, f)]
        ELSE fs_map[f]]

\* lines 699-791: the class has no daemon left to redeploy
do_upgrade_complete ==
    /\ pc = "complete"
    /\ UNCHANGED <<progress, next_uuid, daemons, use_repo_digest, call, ticks, registry, last_op>>
    /\ LET daemon_type == CEPH_UPGRADE_ORDER[loc.ci]
       IN  \E have_local_config_map \in BOOLEAN,
              fail_over \in {"OrchestratorError", "Exception", "restart"},
              versions \in {"ok", "raise"} :
             LET need_upgrade_self ==
                     loc.need_upgrade_self \/ (daemon_type = "mon" /\ ~have_local_config_map)
                 hc == IF daemon_type = "mgr"
                       THEN health_checks \ {"UPGRADE_NO_STANDBY_MGR"} ELSE health_checks
             IN  IF need_upgrade_self
                 THEN /\ versions = "ok"
                      /\ UNCHANGED <<config, osd_release, operator_paused, fs_map>>
                      /\ IF fail_over = "OrchestratorError"
                         THEN /\ FailTick(upgrade_state, store, health_checks,
                                          "UPGRADE_NO_STANDBY_MGR", "no standby", tick)
                              /\ Anomaly
                              /\ UNCHANGED self_mgr
                         ELSE IF fail_over = "Exception"
                         THEN /\ ExceptTick(upgrade_state, store, health_checks, tick)
                              /\ Anomaly
                              /\ UNCHANGED self_mgr
                         ELSE \* fail_over never returns: a standby takes over and
                              \* its controller loads the state from the store
                              /\ \E m \in DOMAIN daemons :
                                    /\ daemon_type_of(m) = "mgr" /\ m # self_mgr
                                    /\ daemons[m].status = "running"
                                    /\ self_mgr' = m
                              /\ upgrade_state' = from_json(store)
                              /\ pc' = "idle"
                              /\ loc' = LocInit
                              /\ UNCHANGED <<store, health_checks, tick, faults>>
                 ELSE /\ have_local_config_map \/ daemon_type = "mon"
                      /\ fail_over = "restart"
                      /\ UNCHANGED self_mgr
                      /\ IF versions = "raise"
                         THEN /\ ExceptTick(upgrade_state, store, hc, tick)
                              /\ Anomaly
                              /\ UNCHANGED <<config, osd_release, operator_paused, fs_map>>
                         ELSE /\ config' = PushDownConfig(config, loc.image_settings,
                                                          daemon_type, loc.target_image)
                              /\ osd_release' = IF daemon_type = "osd"
                                                THEN CompleteOsd(osd_release, loc.target_major)
                                                ELSE osd_release
                              /\ health_checks' = hc
                              /\ operator_paused' = operator_paused
                              /\ IF daemon_type = "mds"
                                    /\ upgrade_state.fs_original_max_mds # <<>>
                                 THEN /\ fs_map' = ScaledUp(upgrade_state.fs_original_max_mds)
                                      /\ upgrade_state' = [upgrade_state EXCEPT
                                                             !.fs_original_max_mds = <<>>]
                                      /\ store' = _save_upgrade_state(upgrade_state')
                                 ELSE UNCHANGED <<fs_map, upgrade_state, store>>
                              /\ tick' = [tick EXCEPT
                                            !.walked = @ \cup {daemon_type},
                                            !.mds_restored = daemon_type = "mds"
                                                /\ upgrade_state.fs_original_max_mds # <<>>,
                                            !.effects = IF config' # config \/ osd_release' # osd_release
                                                           \/ fs_map' # fs_map
                                                        THEN @ \cup {"config"} ELSE @]
                              /\ loc' = [loc EXCEPT !.ci = @ + 1, !.need_upgrade_self = FALSE,
                                                    !.need_upgrade = <<>>]
                              /\ pc' = IF loc.ci = Len(CEPH_UPGRADE_ORDER)
                                       THEN "cleanup" ELSE "class"
                              /\ UNCHANGED faults

ClassSections ==
    {name_to_config_section(CEPH_UPGRADE_ORDER[i]) : i \in 1..Len(CEPH_UPGRADE_ORDER)}

\* a cleanup that leaves the per-class settings in place
FinalConfigGlobalOnly(cfg, image) == [cfg EXCEPT ![GlobalSection] = image]

\* the configuration after 'Finalizing container_image settings'
FinalConfig(cfg, image) ==
    [sec \in Sections |->
        IF sec = GlobalSection THEN image
        ELSE IF sec \in ClassSections THEN NoImage
        ELSE cfg[sec]]

\* lines 793-810: clean up
do_upgrade_cleanup ==
    /\ pc = "cleanup"
    /\ UNCHANGED <<next_uuid, daemons, self_mgr, osd_release, operator_paused, use_repo_digest, fs_map, call, ticks, registry, last_op>>
    /\ \E rm \in {"ok", "raise"} :
         IF rm = "raise"
         THEN \* a 'config rm' fails after the global container_image was set
              /\ config' = [config EXCEPT ![GlobalSection] = loc.target_image]
              /\ ExceptTick(upgrade_state, store, health_checks,
                            [tick EXCEPT !.effects = @ \cup {"config"},
                                         !.cleanup = {"global"}])
              /\ Anomaly
              /\ UNCHANGED progress
         ELSE /\ Normal
              /\ config' = FinalConfig(config, loc.target_image)
              /\ progress' = IF upgrade_state.progress_id # 0
                             THEN progress \ {upgrade_state.progress_id} ELSE progress
              /\ EndTick(NoState, _save_upgrade_state(NoState), health_checks, "true",
                         [tick EXCEPT !.effects = @ \cup {"config", "progress"},
                                      !.cleanup = {"global", "rm", "progress", "cleared"},
                                      !.image = loc.target_image])

----------------------------------------------------------------------------
\* The environment between ticks.

\* the host agent's next 'ls' fills in a redeployed daemon: its image id, the
\* digests of its image and the digests of the manager image that deployed it
RefreshDigests == SeqToSet(registry)

refresh_daemon(n) ==
    /\ pc = "idle"
    /\ Normal
    /\ daemons[n].container_image_id = NoId
    /\ \E dg \in RefreshDigests : \E by \in {OldDigest, dg} :
         daemons' = [daemons EXCEPT ![n] =
                        [@ EXCEPT !.container_image_id = "id:new",
                                  !.container_image_digests = {dg},
                                  !.deployed_by = {by}]]
    /\ last_op' = NoOp
    /\ tick' = TickInit
    /\ UNCHANGED <<upgrade_state, store, health_checks, progress, next_uuid, self_mgr,
                   config, osd_release, operator_paused, use_repo_digest, fs_map, call, ticks, registry, pc, loc>>

\* the tag of the target image is moved to another build
registry_push ==
    /\ pc = "idle"
    /\ Anomaly
    /\ \E digests \in RegistryDigests \ {registry} : registry' = digests
    /\ last_op' = NoOp
    /\ tick' = TickInit
    /\ UNCHANGED <<upgrade_state, store, health_checks, progress, next_uuid, daemons,
                   self_mgr, config, osd_release, operator_paused, use_repo_digest, fs_map, call, ticks, pc, loc>>

\* the manager process restarts between two ticks: CephadmUpgrade.__init__
\* loads the UpgradeState from the store
restart ==
    /\ pc = "idle"
    /\ upgrade_state' = from_json(store)
    /\ last_op' = [NoOp EXCEPT !.op = "restart"]
    /\ tick' = TickInit
    /\ UNCHANGED <<store, health_checks, progress, next_uuid, daemons, self_mgr, config,
                   osd_release, operator_paused, use_repo_digest, registry, pc, loc,
                   faults, fs_map, call, ticks>>

\* a standby manager stops or comes back
mgr_status(n) ==
    /\ pc = "idle"
    /\ daemon_type_of(n) = "mgr" /\ n # self_mgr
    /\ IF daemons[n].status = "running" THEN Anomaly ELSE Normal
    /\ daemons' = [daemons EXCEPT ![n].status =
                      IF @ = "running" THEN "stopped" ELSE "running"]
    /\ last_op' = NoOp
    /\ tick' = TickInit
    /\ UNCHANGED <<upgrade_state, store, health_checks, progress, next_uuid, self_mgr,
                   config, osd_release, operator_paused, use_repo_digest, fs_map, call, ticks, registry, pc, loc>>

----------------------------------------------------------------------------
Next ==
    \/ \E mode \in {"root", "cephadm-package"}, image \in StartImages,
          version \in StartVersions : upgrade_start(mode, image, version)
    \/ upgrade_pause
    \/ upgrade_resume
    \/ upgrade_stop
    \/ continue_upgrade
    \/ do_upgrade_first_pull
    \/ do_upgrade_validate
    \/ do_upgrade_class
    \/ do_upgrade_gate
    \/ wait_for_ok_to_stop
    \/ do_upgrade_redeploy
    \/ do_upgrade_complete
    \/ do_upgrade_cleanup
    \/ \E n \in DOMAIN daemons : refresh_daemon(n)
    \/ \E n \in DOMAIN daemons : mgr_status(n)
    \/ registry_push
    \/ restart

Spec == Init /\ [][Next]_vars

----------------------------------------------------------------------------
\* A cluster with a filesystem: the managers already run the target image, a
\* monitor and a metadata server do not; the filesystem has max_mds > 1.

MdsCluster == {"mon.a", "mgr.x", "mgr.y", "mds.a"}

InitMaxMds == 2

InitMds ==
    /\ Fresh
    /\ daemons = [n \in MdsCluster |->
                    IF daemon_type_of(n) = "mgr"
                    THEN Daemon(<<"sha256:A">>, "id:new", {"sha256:A"}, {"sha256:A"}, "running")
                    ELSE Daemon(OldImage, "id:old", {OldDigest}, {OldDigest}, "running")]
    /\ fs_map = [f \in {1} |-> [max_mds |-> InitMaxMds]]
    /\ call = NoCall
    /\ ticks = NoCount

SpecMds == InitMds /\ [][Next]_vars

----------------------------------------------------------------------------
\* The small cluster of the happy path: 3 monitors, 2 managers, 6 storage
\* daemons on 15.2.13, a registry serving 16.2.5, an environment that never
\* fails.  The managers either run the old image like everything else or were
\* redeployed on the target image by hand before the upgrade is started.
HappyCluster ==
    {"mon.a", "mon.b", "mon.c", "mgr.x", "mgr.y",
     "osd.0", "osd.1", "osd.2", "osd.3", "osd.4", "osd.5"}

HappyPath(all_old) == [fn |-> "happy_path", all_old |-> all_old]

InitHappy ==
    /\ Constructed
    /\ faults = MaxFaults
    /\ \E all_old \in BOOLEAN :
         /\ call = HappyPath(all_old)
         /\ daemons = [n \in HappyCluster |->
                         IF daemon_type_of(n) = "mgr" /\ ~all_old
                         THEN Daemon(<<"sha256:A">>, "id:new", {"sha256:A"}, {"sha256:A"}, "running")
                         ELSE Daemon(OldImage, "id:old", {OldDigest}, {OldDigest}, "running")]
    /\ fs_map = NoFs
    /\ ticks = [counting |-> TRUE, n |-> 0]

\* the operator starts the upgrade, once
happy_start ==
    /\ upgrade_state = NoState
    /\ ticks.n = 0
    /\ \E mode \in {"root", "cephadm-package"}, image \in StartImages,
          version \in StartVersions : upgrade_start(mode, image, version)

\* the serve loop refreshes the daemon cache before it calls continue_upgrade;
\* the ticks are counted from the start of the upgrade
happy_tick ==
    /\ upgrade_state # NoState \/ ticks.n > 0
    /\ \A n \in DOMAIN daemons : daemons[n].container_image_id # NoId
    /\ continue_upgrade

\* every ok-to-stop probe succeeds
happy_ok_to_stop == wait_for_ok_to_stop /\ pc' \notin {"wait", "idle"}

\* the refresh reports a redeployed daemon as deployed by the manager that
\* redeployed it: the active manager's own image digests
happy_refresh(n) ==
    /\ refresh_daemon(n)
    /\ daemons'[n].deployed_by = daemons[self_mgr].container_image_digests

NextHappy ==
    \/ happy_start
    \/ happy_tick
    \/ do_upgrade_first_pull
    \/ do_upgrade_validate
    \/ do_upgrade_class
    \/ do_upgrade_gate
    \/ happy_ok_to_stop
    \/ do_upgrade_redeploy
    \/ do_upgrade_complete
    \/ do_upgrade_cleanup
    \/ \E n \in DOMAIN daemons : happy_refresh(n)

SpecHappy == InitHappy /\ [][NextHappy]_vars

----------------------------------------------------------------------------
\* A cluster whose monitor and managers already run the target image and
\* whose two storage daemons and metadata server are still on the old one.
OsdCluster == {"mon.a", "mgr.x", "mgr.y", "osd.0", "osd.1", "mds.a"}

InitOsd ==
    /\ Fresh
    /\ daemons = [n \in OsdCluster |->
                    IF daemon_type_of(n) \in {"osd", "mds"}
                    THEN Daemon(OldImage, "id:old", {OldDigest}, {OldDigest}, "running")
                    ELSE Daemon(<<"sha256:A">>, "id:new", {"sha256:A"}, {"sha256:A"}, "running")]
    /\ fs_map = NoFs
    /\ call = NoCall
    /\ ticks = NoCount

\* the operator starts an upgrade when none is in progress, pauses, resumes and
\* stops it; the ticks run with every outcome the environment may produce
NextOsd ==
    \/ happy_start
    \/ upgrade_pause
    \/ upgrade_resume
    \/ upgrade_stop
    \/ continue_upgrade
    \/ do_upgrade_first_pull
    \/ do_upgrade_validate
    \/ do_upgrade_class
    \/ do_upgrade_gate
    \/ wait_for_ok_to_stop
    \/ do_upgrade_redeploy
    \/ do_upgrade_complete
    \/ do_upgrade_cleanup
    \/ \E n \in DOMAIN daemons : refresh_daemon(n)

SpecOsd == InitOsd /\ [][NextOsd]_vars

----------------------------------------------------------------------------
\* Hosts that pull the target image from mirrors serving different builds: the
\* managers run the target image, two storage daemons are still on the old
\* one, nothing fails and every ok-to-stop probe succeeds, but the digests a
\* pull returns depend on the mirror the host reaches.
DriftCluster == {"mgr.x", "mgr.y", "osd.0", "osd.1"}

InitDrift ==
    /\ Constructed
    /\ faults = MaxFaults
    /\ daemons = [n \in DriftCluster |->
                    IF daemon_type_of(n) = "osd"
                    THEN Daemon(OldImage, "id:old", {OldDigest}, {OldDigest}, "running")
                    ELSE Daemon(<<"sha256:A">>, "id:new", {"sha256:A"}, {"sha256:A"}, "running")]
    /\ fs_map = NoFs
    /\ call = NoCall
    /\ ticks = NoCount

\* the next pull reaches the other mirror
host_mirror ==
    /\ pc = "idle"
    /\ \E digests \in RegistryDigests \ {registry} : registry' = digests
    /\ last_op' = NoOp
    /\ tick' = tick
    /\ UNCHANGED <<upgrade_state, store, health_checks, progress, next_uuid, daemons,
                   self_mgr, config, osd_release, operator_paused, use_repo_digest,
                   fs_map, call, ticks, pc, loc, faults>>

\* the steps of a tick: the serve loop calls continue_upgrade again and again,
\* and a tick that has begun runs to its return
TickStep ==
    \/ continue_upgrade
    \/ do_upgrade_first_pull
    \/ do_upgrade_validate
    \/ do_upgrade_class
    \/ do_upgrade_gate
    \/ happy_ok_to_stop
    \/ do_upgrade_redeploy
    \/ do_upgrade_complete
    \/ do_upgrade_cleanup

NextDrift ==
    \/ happy_start
    \/ TickStep
    \/ \E n \in DOMAIN daemons : happy_refresh(n)
    \/ host_mirror

SpecDrift == InitDrift /\ [][NextDrift]_vars /\ WF_vars(TickStep)

----------------------------------------------------------------------------
\* The version policy applied to versions, releases and floors of every kind.

PolicyCurrent == {<<"14", "2", "5">>, <<"15", "2", "0">>, <<"15", "2", "13">>,
                  <<"16", "2", "5">>, <<"17", "2", "0">>}

PolicyTarget == {<<"14", "2", "0">>, <<"15", "1", "0">>, <<"15", "2", "0">>,
                 <<"16", "1", "0">>, <<"16", "2", "0">>, <<"16", "2", "3">>,
                 <<"16", "2", "5">>, <<"17", "2", "0">>, <<"18", "2", "0">>}

PolicyMonMin == {0, 14, 15, 16}

PolicyOsdMin == {"nautilus", "octopus", "pacific"}

InitPolicy ==
    /\ Fresh
    /\ daemons = [n \in SmallCluster |->
                    Daemon(OldImage, "id:old", {OldDigest}, {OldDigest}, "running")]
    /\ fs_map = NoFs
    /\ ticks = NoCount
    /\ \E current \in PolicyCurrent, target \in PolicyTarget,
          mon_min \in PolicyMonMin, osd_min_name \in PolicyOsdMin :
         call = [fn |-> "_check_target_version",
                 version |-> [prefix |-> FALSE, parts |-> target],
                 current |-> current, mon_min |-> mon_min,
                 osd_min_name |-> osd_min_name, result |-> "pending"]

\* self._check_target_version(version) in a cluster of the given version and floors
check_target_version ==
    /\ call.fn = "_check_target_version" /\ call.result = "pending"
    /\ call' = [call EXCEPT !.result = _check_target_version(call.version, call.current,
                                                             call.mon_min, call.osd_min_name)]
    /\ UNCHANGED <<upgrade_state, store, health_checks, progress, next_uuid, daemons,
                   self_mgr, config, osd_release, operator_paused, use_repo_digest,
                   registry, pc, loc, last_op, tick, faults, fs_map, ticks>>

NextPolicy == check_target_version

SpecPolicy == InitPolicy /\ [][NextPolicy]_vars

----------------------------------------------------------------------------
\* The version policy applied to version strings of every shape: well-formed
\* ones, '16.2', '16', 'x.2.5', '16.x.5', '16.-1.0' and a version that still
\* carries the words 'ceph version '.
PolicyMalformed ==
    {[prefix |-> FALSE, parts |-> <<"16", "2">>],
     [prefix |-> FALSE, parts |-> <<"16">>],
     [prefix |-> FALSE, parts |-> <<"x", "2", "5">>],
     [prefix |-> FALSE, parts |-> <<"16", "x", "5">>],
     [prefix |-> FALSE, parts |-> <<"16", "-1", "0">>],
     [prefix |-> TRUE, parts |-> <<"16", "2", "5">>]}

InitVersion ==
    /\ Fresh
    /\ daemons = [n \in SmallCluster |->
                    Daemon(OldImage, "id:old", {OldDigest}, {OldDigest}, "running")]
    /\ fs_map = NoFs
    /\ ticks = NoCount
    /\ \E current \in PolicyCurrent,
          version \in PolicyMalformed
                        \cup {[prefix |-> FALSE, parts |-> t] : t \in PolicyTarget},
          mon_min \in PolicyMonMin, osd_min_name \in PolicyOsdMin :
         call = [fn |-> "_check_target_version", version |-> version,
                 current |-> current, mon_min |-> mon_min,
                 osd_min_name |-> osd_min_name, result |-> "pending"]

SpecVersion == InitVersion /\ [][NextPolicy]_vars

----------------------------------------------------------------------------
\* A controller constructed over the store entry an older release left behind
\* in the middle of an upgrade: target_version still reads
\* 'ceph version 16.2.5 (...)'. The managers run the target image, two storage
\* daemons are still on the old one.
LegacyCluster == {"mgr.x", "mgr.y", "osd.0", "osd.1"}

LegacyStore(paused) ==
    to_json(UpgradeState(normalize_image_digest(<<"ceph", "ceph">>), 1, "id:new",
                         <<"sha256:A">>, CephVersion(<<"16", "2", "5">>), NoError,
                         paused, <<>>))

InitLegacy ==
    /\ \E paused \in BOOLEAN : store = LegacyStore(paused)
    /\ upgrade_state = from_json(store)
    /\ health_checks = {}
    /\ progress = {}
    /\ next_uuid = 1
    /\ self_mgr = "mgr.x"
    /\ config = [s \in Sections |->
                    IF s = GlobalSection \/ s.sub # "" THEN OldImage ELSE NoImage]
    /\ osd_release = "octopus"
    /\ operator_paused = FALSE
    /\ use_repo_digest = TRUE
    /\ registry = <<"sha256:A">>
    /\ pc = "idle"
    /\ loc = LocInit
    /\ last_op = NoOp
    /\ tick = TickInit
    /\ faults = 0
    /\ daemons = [n \in LegacyCluster |->
                    IF daemon_type_of(n) = "osd"
                    THEN Daemon(OldImage, "id:old", {OldDigest}, {OldDigest}, "running")
                    ELSE Daemon(<<"sha256:A">>, "id:new", {"sha256:A"}, {"sha256:A"}, "running")]
    /\ fs_map = NoFs
    /\ call = NoCall
    /\ ticks = NoCount

SpecLegacy == InitLegacy /\ [][NextOsd]_vars

----------------------------------------------------------------------------
\* Properties of the controller.

\* C1: a tick that finds no UpgradeState, or a paused one, returns false and
\* pulls no image, redeploys no daemon, changes no cluster configuration and
\* updates no progress event: it leaves everything but its own record alone.
C1_IdleTick ==
    [][(pc = "idle" /\ (upgrade_state = NoState \/ upgrade_state.paused)
        /\ tick'.pre # "none")
       => /\ tick'.ret = "false" /\ tick'.effects = {} /\ pc' = "idle"
          /\ UNCHANGED <<upgrade_state, store, health_checks, progress, next_uuid,
                         daemons, self_mgr, config, osd_release, registry>>]_vars

\* a tick found a paused upgrade with a daemon still on the old image
C1_PausedTick ==
    /\ tick.pre = "paused" /\ tick.ret = "false"
    /\ upgrade_state # NoState /\ upgrade_state.paused
    /\ \E n \in DOMAIN daemons : daemons[n].container_image_name = OldImage

\* C2 (as the code has it): a daemon is redeployed while a daemon of an earlier
\* class still needs upgrade only if every such earlier daemon has no image id
\* in the cache and already carries the target image name (the gate skipped it).
C2_ClassOrder ==
    \A e \in tick.blocked_by :
        /\ daemons[e].container_image_id = NoId
        /\ daemons[e].container_image_name = tick.image

\* a daemon was redeployed while an earlier class had a daemon needing upgrade
C2_RedeployPastPending == tick.redeployed # {} /\ tick.blocked_by # {}

\* C2 as stated: a daemon of a class is redeployed only if no daemon of any
\* earlier class still needs upgrade.
C2_StrictClassOrder == tick.blocked_by = {}

\* C3 (as the code has it): a tick that has ended did the final cleanup if and
\* only if it walked every class to its completion and no step raised; the
\* cleanup leaves the global container_image at the target, no per-class
\* container_image, no UpgradeState in memory or in the store and the progress
\* event closed; every daemon that needed upgrade in such a tick was skipped
\* by the gate (no image id in the cache, image name already the target).
C3_Cleanup ==
    (pc = "idle" /\ tick.pre = "active" /\ tick.ret # "none") =>
        /\ (tick.cleanup = {"global", "rm", "progress", "cleared"})
             <=> (tick.walked = SeqToSet(CEPH_UPGRADE_ORDER) /\ ~tick.raised)
        /\ tick.cleanup = {"global", "rm", "progress", "cleared"} =>
             /\ upgrade_state = NoState /\ store = NoStore
             /\ config[GlobalSection] = tick.image
             /\ \A sec \in ClassSections : config[sec] = NoImage
             /\ progress = {}
             /\ tick.needy \subseteq tick.skipped

\* a tick cleaned up although a daemon it found needing upgrade was skipped
C3_CleanupPastPending ==
    /\ pc = "idle" /\ tick.cleanup = {"global", "rm", "progress", "cleared"}
    /\ tick.needy # {}

\* C3 as stated: the final cleanup happens in a tick if and only if every class
\* was walked with no daemon of the class needing upgrade.
C3_CleanupIffNoneNeedy ==
    (pc = "idle" /\ tick.pre = "active" /\ tick.ret # "none") =>
        ((tick.cleanup = {"global", "rm", "progress", "cleared"})
           <=> (tick.walked = SeqToSet(CEPH_UPGRADE_ORDER) /\ tick.needy = {}))

\* C4: paused is true if and only if an error has been recorded or the
\* operator paused and has not resumed since.
C4_PausedIffErrorOrOperator ==
    upgrade_state # NoState =>
        (upgrade_state.paused <=> (upgrade_state.error # NoError \/ operator_paused))

\* C5: exactly one upgrade alert code is in the health sink when state.error is
\* set, and none when it is unset or there is no UpgradeState.
C5_OneAlertIffError ==
    IF upgrade_state # NoState /\ upgrade_state.error # NoError
    THEN Cardinality(health_checks \cap UPGRADE_ERRORS) = 1
    ELSE health_checks \cap UPGRADE_ERRORS = {}

\* C6: a tick that starts after the first pull failed with UPGRADE_FAILED_PULL
\* and was resumed, and whose pull succeeds, leaves that alert out of the health
\* sink and no error recorded.
C6_ResumeClearsFailedPull ==
    (tick.pre_error # NoError /\ tick.pre_error[1] = "UPGRADE_FAILED_PULL"
     /\ tick.first_pull = "ok")
    => /\ "UPGRADE_FAILED_PULL" \notin health_checks
       /\ upgrade_state # NoState => upgrade_state.error = NoError

C8_StopClearsAll ==
    last_op.op = "stop" =>
        /\ health_checks \cap UPGRADE_ERRORS = {}
        /\ upgrade_state = NoState /\ store = NoStore

\* C9: a start whose target differs from the target of the upgrade in progress
\* raises OrchestratorError and changes neither the UpgradeState in memory, nor
\* the store, nor the health alerts, nor the progress events and ids.
C9_OtherTargetRejected ==
    [][(last_op'.op = "start" /\ upgrade_state # NoState
        /\ last_op'.target # upgrade_state._target_name)
       => /\ last_op'.result = "OrchestratorError"
          /\ UNCHANGED <<upgrade_state, store, health_checks, progress, next_uuid>>]_vars

\* a start for another target was rejected while a paused upgrade was in progress
C9_RejectedWhilePaused ==
    /\ last_op.op = "start" /\ last_op.result = "OrchestratorError"
    /\ upgrade_state # NoState /\ upgrade_state.paused
    /\ last_op.target # NoImage /\ last_op.target # upgrade_state._target_name

\* C10: a start with the target of the upgrade in progress draws no new
\* progress id and changes no field of the UpgradeState but paused, which it
\* sets to false and saves when it was true; on an unpaused state it changes
\* nothing, so a second call adds nothing to the first.
C10_SameTargetIdempotent ==
    [][(last_op'.op = "start" /\ upgrade_state # NoState
        /\ last_op'.target = upgrade_state._target_name)
       => /\ upgrade_state' = [upgrade_state EXCEPT !.paused = FALSE]
          /\ store' = IF upgrade_state.paused THEN to_json(upgrade_state') ELSE store
          /\ last_op'.result = IF upgrade_state.paused THEN "resumed" ELSE "in_progress"
          /\ UNCHANGED <<health_checks, progress, next_uuid>>]_vars

\* a start resumed a failed upgrade and its error and target fields are kept
C10_ResumedByStart ==
    /\ last_op.op = "start" /\ last_op.result = "resumed"
    /\ upgrade_state # NoState /\ ~upgrade_state.paused
    /\ upgrade_state.error # NoError /\ upgrade_state.target_id # NoId

\* C11: a start called while fewer than 2 manager daemons are running is
\* rejected with OrchestratorError, whatever the prior state of the controller
\* (no upgrade, upgrade in progress, upgrade paused).
C11_FewMgrsRejected ==
    (last_op.op = "start" /\ running_mgr_count < 2) => last_op.result = "OrchestratorError"

\* C12: in every UpgradeState, target_id, target_version and target_digests
\* are either all unset/empty or all set and non-empty.
C12_TargetAllOrNone ==
    upgrade_state # NoState =>
        \/ /\ upgrade_state.target_id = NoId
           /\ upgrade_state.target_version = NoVersion
           /\ upgrade_state.target_digests = <<>>
        \/ /\ upgrade_state.target_id # NoId
           /\ upgrade_state.target_version # NoVersion
           /\ upgrade_state.target_digests # <<>>

\* C13: persist-before-act: no control operation performs an external effect
\* (progress update, cluster RPC, host-agent call, redeploy) between a write
\* to the UpgradeState and the save of it.
C13_PersistBeforeAct == last_op.unsaved = {}

\* C16: a tick in which a host's pull succeeded with digests disjoint from
\* target_digests has replaced target_digests by the pulled digests, saved the
\* state and returned, redeploying nothing after the pull, pausing nothing and
\* raising no alert; and no daemon is redeployed in upgrade mode on a host
\* whose inspected or pulled digests do not intersect target_digests.
C16_DigestDrift ==
    /\ tick.off_target = {}
    /\ tick.drift =>
         /\ pc = "idle" /\ tick.ret = "true"
         /\ upgrade_state # NoState
         /\ upgrade_state.target_digests = tick.pulled
         /\ store = to_json(upgrade_state)
         /\ ~upgrade_state.paused
         /\ health_checks \subseteq tick.pre_alerts

\* a tick ended in a digest drift restart
C16_DriftRestart ==
    /\ tick.drift /\ upgrade_state # NoState
    /\ upgrade_state.target_digests = <<"sha256:B">>
    /\ \E n \in DOMAIN daemons : daemons[n].container_image_name = OldImage

\* C20: no 'redeploy without changing image' (a need_upgrade_deployer entry)
\* is issued, for any daemon class, while the controller's own manager daemon
\* is not on the target image.
C20_DeployerAfterSelf == tick.deployer_before_self = {}

\* The policy's answer to a call, and the floors of the call.
PolicyDone == call.fn = "_check_target_version" /\ call.result # "pending"

PolicyFloorsMet ==
    /\ call.mon_min >= IntOf(call.version.parts[1]) - 2
    /\ ceph_release_to_major(call.osd_min_name) >= IntOf(call.version.parts[1]) - 2

\* C17 (as the code has it): the policy rejects a target more than two majors
\* above the current major (17.2.0 from 14.2.x) and, with the floors met,
\* accepts 16.2.0 from 14.2.x, 17.2.0 from 15.2.0 and 16.2.0 from 15.2.0.
C17_JumpOverTwoMajors ==
    PolicyDone =>
        /\ IntOf(call.current[1]) < IntOf(call.version.parts[1]) - 2 => call.result # "ok"
        /\ (/\ PolicyFloorsMet
            /\ <<call.current, call.version.parts>> \in
                 {<<<<"14", "2", "5">>, <<"16", "2", "0">>>>,
                  <<<<"15", "2", "0">>, <<"17", "2", "0">>>>,
                  <<<<"15", "2", "0">>, <<"16", "2", "0">>>>}) => call.result = "ok"

\* 17.2.0 was asked of a 14.2.x cluster whose floors are met, and rejected
C17_ThreeMajorsRejected ==
    /\ PolicyDone /\ call.current = <<"14", "2", "5">>
    /\ call.version.parts = <<"17", "2", "0">>
    /\ call.mon_min = 16 /\ call.osd_min_name = "pacific"
    /\ call.result = "too_big_a_jump"

\* C17 as stated: 16.2.0 is rejected from 14.2.x, 17.2.0 is rejected from
\* 15.2.0, and 16.2.0 is accepted from 15.2.0 when the floors are met.
C17_VersionPolicyBoundary ==
    PolicyDone =>
        /\ (call.current[1] = "14" /\ call.version.parts = <<"16", "2", "0">>)
             => call.result # "ok"
        /\ (call.current = <<"15", "2", "0">> /\ call.version.parts = <<"17", "2", "0">>)
             => call.result # "ok"
        /\ (call.current = <<"15", "2", "0">> /\ call.version.parts = <<"16", "2", "0">>
            /\ PolicyFloorsMet) => call.result = "ok"

\* C18 (as the code has it): the policy rejects a same-major target whose minor
\* (the Y of X.Y.Z) is below the current minor; the patch is not compared:
\* with the floors met 16.2.3 is accepted from 16.2.5.
C18_MinorDowngradeRejected ==
    PolicyDone =>
        /\ (/\ call.current[1] = call.version.parts[1]
            /\ IntOf(call.current[2]) > IntOf(call.version.parts[2])) => call.result # "ok"
        /\ (/\ call.current = <<"16", "2", "5">>
            /\ call.version.parts = <<"16", "2", "3">>
            /\ PolicyFloorsMet) => call.result = "ok"

\* 16.1.0 was asked of a 16.2.5 cluster and rejected as a minor downgrade
C18_MinorDowngradeSeen ==
    /\ PolicyDone /\ call.current = <<"16", "2", "5">>
    /\ call.version.parts = <<"16", "1", "0">>
    /\ call.result = "downgrade_minor"

\* C18 as stated: every same-major downgrade is rejected, 16.2.3 from 16.2.5
\* among them.
C18_NoSameMajorDowngrade ==
    (/\ PolicyDone
     /\ call.current[1] = call.version.parts[1]
     /\ \/ IntOf(call.current[2]) > IntOf(call.version.parts[2])
        \/ /\ call.current[2] = call.version.parts[2]
           /\ IntOf(call.current[3]) > IntOf(call.version.parts[3]))
    => call.result # "ok"

\* C14: saving the UpgradeState and loading it again, as a restarted
\* controller does, yields an equal state, fs_original_max_mds with its
\* filesystem-id keys included.
C14_SaveLoadRoundTrip ==
    upgrade_state # NoState => from_json(_save_upgrade_state(upgrade_state)) = upgrade_state

\* C15: when the mds class completes with a recorded fs_original_max_mds, every
\* filesystem that was scaled down has its max_mds back at the original value
\* and the record is cleared, a restart of the controller in between included.
C15_MaxMdsRestored ==
    tick.mds_restored =>
        /\ \A f \in DOMAIN fs_map : fs_map[f].max_mds = InitMaxMds
        /\ upgrade_state # NoState => upgrade_state.fs_original_max_mds = <<>>

\* C19: on the happy path of the small cluster (3 monitors, 2 managers, 6
\* storage daemons, everything on 15.2.13, target 16.2.5, no failure, every
\* probe succeeds), once 12 ticks have run the UpgradeState is cleared, no
\* alert is set, every daemon runs a digest of the target and
\* require_osd_release is the release of major 16.
C19_HappyPathWithin12Ticks ==
    (call = HappyPath(TRUE) /\ ticks.n >= 12 /\ pc = "idle")
        => /\ upgrade_state = NoState
           /\ health_checks = {}
           /\ \A n \in DOMAIN daemons :
                 Intersects(daemons[n].container_image_digests, registry)
           /\ osd_release = lookup_release_name(16)

\* C21: every storage daemon redeployed in a tick passed its own ok-to-stop
\* wait in that tick or was named in the peer list a successful probe of that
\* tick returned; in a tick in which the wait for a storage daemon failed, no
\* daemon is redeployed.
C21_OsdRedeployedWhenOkToStop ==
    /\ \A n \in tick.redeployed :
          daemon_type_of(n) = "osd" => n \in tick.ok_waited \cup tick.peers
    /\ (\E n \in tick.wait_failed : daemon_type_of(n) = "osd") => tick.redeployed = {}

\* a storage daemon was redeployed on the word of a peer's probe
C21_PeerRedeployed ==
    \E n \in tick.redeployed :
        daemon_type_of(n) = "osd" /\ n \notin tick.ok_waited /\ n \in tick.peers

\* C22: when the monitor map lists 2 or fewer monitors, no ok-to-stop probe is
\* made for the monitor needing upgrade, the monitor is selected all the same
\* and is redeployed in the tick unless the redeploy step itself ends the tick
\* (failed pull, digest drift, exception); when the map lists more than 2, a
\* monitor is redeployed only after its own wait succeeded or a returned peer
\* list named it.
C22_MonProbeByMonMap ==
    LET mons == {n \in DOMAIN daemons : daemon_type_of(n) = "mon"}
    IN  /\ tick.monmap \in 1..2 =>
              /\ tick.probes = 0 /\ tick.ok_waited = {}
              /\ tick.unprobed \cap mons # {}
              /\ pc \in {"upgrade", "idle"}
              /\ pc = "upgrade" => \E i \in 1..Len(loc.to_upgrade) :
                                      loc.to_upgrade[i].name \in tick.unprobed
              /\ (pc = "idle" /\ ~tick.drift /\ ~tick.raised
                   /\ upgrade_state # NoState /\ ~upgrade_state.paused)
                     => tick.unprobed \subseteq tick.redeployed
        /\ tick.monmap > 2 =>
              /\ tick.unprobed = {}
              /\ tick.redeployed \cap mons \subseteq tick.ok_waited \cup tick.peers

\* a monitor was redeployed without a probe, the monitor map listing 2 monitors
C22_UnprobedMonRedeployed ==
    /\ tick.monmap = 2
    /\ \E n \in tick.redeployed : daemon_type_of(n) = "mon" /\ n \in tick.unprobed

\* C23: the daemons redeployed in one tick are of one class, and a tick that
\* selected daemons of a class for upgrade returns after that class's batch:
\* it walks no later class and runs no completion of that class or a later one.
C23_OneClassPerTick ==
    /\ \A n, m \in tick.redeployed : daemon_type_of(n) = daemon_type_of(m)
    /\ \A n \in tick.redeployed : \A c \in tick.walked : Earlier(c, daemon_type_of(n))
    /\ loc.to_upgrade # <<>> =>
          /\ pc \in {"gate", "wait", "upgrade"}
          /\ \A c \in tick.walked : Earlier(c, CEPH_UPGRADE_ORDER[loc.ci])
    /\ tick.redeployed # {} => pc \in {"upgrade", "idle"} /\ tick.cleanup = {}

\* a tick completed the earlier classes and then redeployed a batch of two
C23_BatchAfterCompletions ==
    /\ Cardinality(tick.redeployed) >= 2
    /\ tick.walked # {}
    /\ pc = "idle"

\* C24: one call of _wait_for_ok_to_stop probes at most 4 times (a probe is
\* made only while fewer than 4 probes of the call have failed); it returns
\* true on the first successful probe and false after the 4th failed one; and
\* when the operator has paused or stopped the upgrade between two attempts it
\* returns false without another probe, the tick then ending without a
\* redeploy and without an error or alert recorded.
C24_WaitForOkToStop ==
    [][(pc = "wait" /\ last_op' = last_op) =>
         IF upgrade_state = NoState \/ upgrade_state.paused
         THEN /\ tick'.probes = tick.probes
              /\ tick'.wait_ret = "false"
              /\ pc' = "idle" /\ tick'.ret = "true" /\ tick'.redeployed = {}
              /\ UNCHANGED <<upgrade_state, store, health_checks, daemons>>
         ELSE /\ tick.probes < Tries
              /\ tick'.wait_ret # "true" => tick'.probes = tick.probes + 1
              /\ pc' = "wait" => tick'.probes < Tries /\ tick'.wait_ret = "none"
              /\ tick'.wait_ret = "true" =>
                    /\ pc' \in {"gate", "upgrade"}
                    /\ loc.need_upgrade[loc.gi].name \in tick'.ok_waited
              /\ tick'.wait_ret = "false" =>
                    /\ tick'.probes = Tries
                    /\ pc' = "idle" /\ tick'.ret = "true" /\ tick'.redeployed = {}
                    /\ UNCHANGED <<upgrade_state, store, health_checks, daemons>>]_vars

\* the operator paused the upgrade during the sleep after a failed probe, and
\* the wait returned false
C24_PausedBetweenAttempts ==
    /\ pc = "idle"
    /\ tick.wait_aborted /\ tick.wait_ret = "false" /\ tick.probes \in 1..(Tries - 1)
    /\ upgrade_state # NoState /\ upgrade_state.paused /\ upgrade_state.error = NoError
    /\ tick.redeployed = {}

\* C25 (as the code has it): a peer list is in effect only for the rest of the
\* gating of the class whose probe returned it.  Only daemons of that class
\* are gated under it, the tick goes from the gating to that class's batch and
\* returns, and no class is partitioned, completed or cleaned up while a peer
\* list exists.
C25_PeerListWithinClass ==
    /\ \A c \in tick.peer_gated : \E p \in tick.peers : daemon_type_of(p) = c
    /\ loc.known_ok_to_stop # {} =>
          /\ pc \in {"gate", "upgrade"}
          /\ \A p \in loc.known_ok_to_stop : daemon_type_of(p) = CEPH_UPGRADE_ORDER[loc.ci]
    /\ tick.peers # {} =>
          \A c \in tick.walked : \A p \in tick.peers : Earlier(c, daemon_type_of(p))

\* a storage daemon was gated under the peer list of another's probe while the
\* metadata server still needed its upgrade
C25_GatedUnderPeerList ==
    /\ pc = "idle"
    /\ "osd" \in tick.peer_gated
    /\ upgrade_state # NoState
    /\ Classify("mds.a", upgrade_state.target_digests) # "done"

\* C25 as stated: the peer list is carried to the gate checks of the later
\* classes of the tick: in a tick in which a probe returned a peer list and
\* which ended without failure, the daemons of later classes that need upgrade
\* were gated under that list.
C25_PeerListCarried ==
    (/\ pc = "idle" /\ tick.ret = "true" /\ tick.peers # {} /\ ~tick.drift
     /\ upgrade_state # NoState /\ ~upgrade_state.paused)
        => \A m \in DOMAIN daemons :
              (/\ \E p \in tick.peers : Earlier(daemon_type_of(p), daemon_type_of(m))
               /\ Classify(m, upgrade_state.target_digests) # "done")
                  => daemon_type_of(m) \in tick.peer_gated

\* C26: when the pulls never converge on target_digests, so that drift
\* restarts happen again and again, the upgrade eventually pauses with the
\* UPGRADE_FAILED_PULL alert.
C26_DriftEventuallyFails ==
    ([]<>(tick.drift /\ pc = "idle"))
        => <>(/\ upgrade_state # NoState /\ upgrade_state.paused
              /\ "UPGRADE_FAILED_PULL" \in health_checks)

\* C27: _check_target_version never raises: for every version string,
\* malformed ones included, it returns a reason or none, and it returns none
\* only for a well-formed X.Y.Z with Y >= 0.
C27_CheckNeverRaises ==
    (call.fn = "_check_target_version" /\ call.result # "pending")
        => /\ ~CheckRaises(call.result)
           /\ call.result = "ok" =>
                 /\ ~call.version.prefix
                 /\ Len(call.version.parts) = 3
                 /\ IsInt(call.version.parts[1]) /\ IsInt(call.version.parts[2])
                 /\ IntOf(call.version.parts[2]) >= 0

\* C28: whenever a public operation (start, pause, resume, stop, tick) has
\* returned, the store entry 'upgrade_state' is the serialization of the
\* in-memory UpgradeState, absent exactly when that is absent, and loading it
\* gives the in-memory state back.
C28_StoreIsSavedState ==
    pc = "idle" => /\ store = _save_upgrade_state(upgrade_state)
                   /\ from_json(store) = upgrade_state

====
